---------------------------- MODULE Spec2Model ----------------------------
(***************************************************************************)
(* Model of terraform-provider-uyuni: the provider configuration           *)
(* (internal/provider/provider.go), the user resource                      *)
(* (internal/provider/user_resource.go) and the users listing data source  *)
(* (internal/provider/users_data_source.go), together with the remote      *)
(* Uyuni API they call (user/create, user/getDetails, user/delete,         *)
(* user/listUsers).                                                        *)
(***************************************************************************)
EXTENDS Integers, Sequences, FiniteSets, TLC

(***************************************************************************)
(* Bounds of the model.                                                    *)
(***************************************************************************)
\* number of uyuni_user resource instances Terraform tracks
MaxInstances == 2
\* longest result sequence user/listUsers returns
MaxUsers == 3

\* Go nil / an absent object (a record, so that it compares with records)
NIL == [nil |-> TRUE]

(***************************************************************************)
(* types.String of terraform-plugin-framework: null, unknown or a known    *)
(* Go string.  ValueString() is "" for null and unknown.                   *)
(***************************************************************************)
StringNull == [state |-> "null", value |-> ""]
StringUnknown == [state |-> "unknown", value |-> ""]
StringValue(s) == [state |-> "known", value |-> s]
IsNull(t) == t.state = "null"
IsUnknown(t) == t.state = "unknown"
ValueString(t) == IF t.state = "known" THEN t.value ELSE ""

\* types.Int64Value(int64(n))
Int64Value(n) == [state |-> "known", value |-> n]

(***************************************************************************)
(* diag.Diagnostics: the ordered list of diagnostics of one response.      *)
(* Every diagnostic this provider adds is an error.                        *)
(***************************************************************************)
NoDiagnostics == << >>
AddAttributeError(diags, attr, summary) ==
    Append(diags, [severity |-> "error", path |-> attr,
                   summary |-> summary, cause |-> ""])
AddError(diags, summary, cause) ==
    Append(diags, [severity |-> "error", path |-> "",
                   summary |-> summary, cause |-> cause])
HasError(diags) == \E k \in 1..Len(diags) : diags[k].severity = "error"

(***************************************************************************)
(* Errors the API layer (uyuni-tools shared/api) returns.                  *)
(***************************************************************************)
NoError == ""
ErrTransport == "connection refused"
ErrNotFound == "no such user"
ErrExists == "user already exists"
ErrInit == "unable to login"

VARIABLES
    environ,    \* the process environment: UYUNI_* variable -> value ("" unset)
    cfgReq,     \* provider.ConfigureRequest.Config, NIL before ConfigureProvider
    cfgLocals,  \* host/username/password locals of uyuniProvider.Configure
    cfgResp,    \* provider.ConfigureResponse, NIL before ConfigureProvider
    rClient,    \* userResource.client
    dClient,    \* UsersDataSource.client
    server,     \* remote Uyuni users: login -> details or NIL
    tfstate,    \* Terraform state of each uyuni_user instance, NIL when absent
    dsState,    \* datasource.ReadResponse.State of the latest listing Read
    last,       \* the latest operation: its kind, instance, request and API error
    diags,      \* resp.Diagnostics of the latest resource / data source operation
    calls,      \* the remote requests the latest operation issued
    deleted     \* history: logins a Delete removed and nobody created since

vars == <<environ, cfgReq, cfgLocals, cfgResp, rClient, dClient, server,
          tfstate, dsState, last, diags, calls, deleted>>

\* the record of the latest operation; afterCreate: the operation is a Read
\* that directly follows the successful Create of the same instance
Event(op, inst, req, err) ==
    [op |-> op, inst |-> inst, req |-> req, err |-> err, afterCreate |-> FALSE]

(***************************************************************************)
(* Provider configuration (provider.go).                                   *)
(***************************************************************************)
EnvNames == {"UYUNI_HOST", "UYUNI_USERNAME", "UYUNI_PASSWORD"}

\* os.Getenv
Getenv(name) == environ[name]

\* provider.go 85-110: one attribute error per unknown field
UnknownDiags(config) ==
    LET d1 == IF IsUnknown(config.Host)
              THEN AddAttributeError(NoDiagnostics, "host", "Unknown Uyuni API Host")
              ELSE NoDiagnostics
        d2 == IF IsUnknown(config.Username)
              THEN AddAttributeError(d1, "username", "Unknown Uyuni API Username")
              ELSE d1
    IN  IF IsUnknown(config.Password)
        THEN AddAttributeError(d2, "password", "Unknown Uyuni API Password")
        ELSE d2

ResolveFieldEnvWins(field, envName) ==
    IF Getenv(envName) # "" THEN Getenv(envName) ELSE ValueString(field)

\* provider.go 119-133: environment default, overridden by a non-null value
ResolveField(field, envName) ==
    IF ~IsNull(field) THEN ValueString(field) ELSE Getenv(envName)

MissingDiagsFirstOnly(host, username, password) ==
    IF host = ""
    THEN AddAttributeError(NoDiagnostics, "host", "Missing Uyuni API Host")
    ELSE IF username = ""
    THEN AddAttributeError(NoDiagnostics, "username", "Missing Uyuni API Username")
    ELSE IF password = ""
    THEN AddAttributeError(NoDiagnostics, "password", "Missing Uyuni API Password")
    ELSE NoDiagnostics

\* provider.go 138-166: one attribute error per empty resolved value
MissingDiags(host, username, password) ==
    LET d1 == IF host = ""
              THEN AddAttributeError(NoDiagnostics, "host", "Missing Uyuni API Host")
              ELSE NoDiagnostics
        d2 == IF username = ""
              THEN AddAttributeError(d1, "username", "Missing Uyuni API Username")
              ELSE d1
    IN  IF password = ""
        THEN AddAttributeError(d2, "password", "Missing Uyuni API Password")
        ELSE d2

\* provider.go 180-186
ConnectionDetails(host, username, password) ==
    [Server |-> host, User |-> username, Password |-> password,
     CAcert |-> "", Insecure |-> TRUE]

\* the *api.HTTPClient api.Init returns for a connection
HTTPClient(conn) == [type |-> "*api.HTTPClient", conn |-> conn]

NoLocals == NIL
Locals(host, username, password) ==
    [host |-> host, username |-> username, password |-> password]

\* err: the error api.Init returned, NoError also when it was not called
ConfigureResponse(d, data, locals, err) ==
    [Diagnostics |-> d, ResourceData |-> data, DataSourceData |-> data,
     locals |-> locals, err |-> err]

ConfigureOutcomeNoAbort(config, initErr) ==
    LET host == ResolveField(config.Host, "UYUNI_HOST")
        username == ResolveField(config.Username, "UYUNI_USERNAME")
        password == ResolveField(config.Password, "UYUNI_PASSWORD")
        d == UnknownDiags(config) \o MissingDiags(host, username, password)
    IN  IF initErr # NoError
        THEN ConfigureResponse(
                 AddError(d, "Unable to Create Uyuni API Client", initErr),
                 NIL, Locals(host, username, password), initErr)
        ELSE ConfigureResponse(d,
                 HTTPClient(ConnectionDetails(host, username, password)),
                 Locals(host, username, password), NoError)

ConfigureOutcomeNoSecondReturn(config, initErr) ==
    LET unknown == UnknownDiags(config)
    IN  IF HasError(unknown)
        THEN ConfigureResponse(unknown, NIL, NoLocals, NoError)
        ELSE
          LET host == ResolveField(config.Host, "UYUNI_HOST")
              username == ResolveField(config.Username, "UYUNI_USERNAME")
              password == ResolveField(config.Password, "UYUNI_PASSWORD")
              missing == MissingDiags(host, username, password)
          IN  IF initErr # NoError
              THEN ConfigureResponse(
                       AddError(missing,
                                "Unable to Create Uyuni API Client", initErr),
                       NIL, Locals(host, username, password), initErr)
              ELSE ConfigureResponse(missing,
                       HTTPClient(ConnectionDetails(host, username, password)),
                       Locals(host, username, password), NoError)

\* provider.go 71-205: what uyuniProvider.Configure leaves in its response,
\* and the values of its locals (NoLocals when it returns before line 119)
ConfigureOutcome(config, initErr) ==
    LET unknown == UnknownDiags(config)
    IN  IF HasError(unknown)
        THEN ConfigureResponse(unknown, NIL, NoLocals, NoError)
        ELSE
          LET host == ResolveField(config.Host, "UYUNI_HOST")
              username == ResolveField(config.Username, "UYUNI_USERNAME")
              password == ResolveField(config.Password, "UYUNI_PASSWORD")
              missing == MissingDiags(host, username, password)
          IN  IF HasError(missing)
              THEN ConfigureResponse(missing, NIL,
                                     Locals(host, username, password), NoError)
              ELSE IF initErr # NoError
              THEN ConfigureResponse(
                       AddError(NoDiagnostics,
                                "Unable to Create Uyuni API Client", initErr),
                       NIL, Locals(host, username, password), initErr)
              ELSE ConfigureResponse(NoDiagnostics,
                       HTTPClient(ConnectionDetails(host, username, password)),
                       Locals(host, username, password), NoError)

\* ConfigureProvider: runs once per provider process
ProviderConfigure(config, initErr) ==
    /\ cfgResp = NIL
    /\ cfgReq' = config
    /\ LET out == ConfigureOutcome(config, initErr)
       IN  /\ cfgResp' = [Diagnostics |-> out.Diagnostics,
                          ResourceData |-> out.ResourceData,
                          DataSourceData |-> out.DataSourceData]
           /\ cfgLocals' = out.locals
           /\ last' = Event("Configure", 0, config, out.err)
    /\ UNCHANGED <<environ, rClient, dClient, server, tfstate, dsState, diags,
                   calls, deleted>>

\* user_resource.go 190-209: userResource.Configure
UserResourceConfigure ==
    /\ rClient' = IF cfgResp = NIL \/ cfgResp.ResourceData = NIL
                  THEN rClient
                  ELSE IF cfgResp.ResourceData.type = "*api.HTTPClient"
                  THEN cfgResp.ResourceData
                  ELSE rClient
    /\ UNCHANGED <<environ, cfgReq, cfgLocals, cfgResp, dClient, server,
                   tfstate, dsState, last, diags, calls, deleted>>

\* users_data_source.go 106-124: UsersDataSource.Configure
UsersDataSourceConfigure ==
    /\ dClient' = IF cfgResp = NIL \/ cfgResp.DataSourceData = NIL
                  THEN dClient
                  ELSE IF cfgResp.DataSourceData.type = "*api.HTTPClient"
                  THEN cfgResp.DataSourceData
                  ELSE dClient
    /\ UNCHANGED <<environ, cfgReq, cfgLocals, cfgResp, rClient, server,
                   tfstate, dsState, last, diags, calls, deleted>>

(***************************************************************************)
(* The remote Uyuni API, as the provider's calls see it.  A request either *)
(* fails in transport (fault) or is answered by the server from its user   *)
(* table.                                                                  *)
(***************************************************************************)
Lookup(srv, login) == IF login \in DOMAIN srv THEN srv[login] ELSE NIL

\* POST user/create {login, password, firstName, lastName, email}: the server
\* stores what it is sent, and refuses a login it already has (or one outside
\* the logins of the model)
RemoteCreate(srv, data, fault) ==
    IF fault THEN [err |-> ErrTransport, server |-> srv]
    ELSE IF data.login \notin DOMAIN srv \/ srv[data.login] # NIL
    THEN [err |-> ErrExists, server |-> srv]
    ELSE [err |-> NoError,
          server |-> [srv EXCEPT ![data.login] =
                         [first_name |-> data.firstName,
                          last_name |-> data.lastName,
                          email |-> data.email]]]

\* GET user/getDetails?login=<login>
RemoteGetDetails(srv, login, fault) ==
    IF fault THEN [err |-> ErrTransport, result |-> NIL]
    ELSE IF Lookup(srv, login) = NIL THEN [err |-> ErrNotFound, result |-> NIL]
    ELSE [err |-> NoError, result |-> srv[login]]

\* POST user/delete?login=<login>
RemoteDelete(srv, login, fault) ==
    IF fault THEN [err |-> ErrTransport, server |-> srv]
    ELSE IF Lookup(srv, login) = NIL THEN [err |-> ErrNotFound, server |-> srv]
    ELSE [err |-> NoError, server |-> [srv EXCEPT ![login] = NIL]]

Request(method, path, login, body) ==
    [method |-> method, path |-> path, login |-> login, body |-> body]

(***************************************************************************)
(* User resource (user_resource.go).  Terraform core invokes Create only   *)
(* for an instance without state, Read/Update/Delete only for one with     *)
(* state, and none of them unless ConfigureProvider succeeded and the      *)
(* resource was handed the client.                                         *)
(***************************************************************************)
CreatePayloadSwapped(plan) ==
    [login |-> ValueString(plan.Login),
     password |-> ValueString(plan.Password),
     firstName |-> ValueString(plan.LastName),
     lastName |-> ValueString(plan.FirstName),
     email |-> ValueString(plan.Email)]

\* user_resource.go 83-89
CreatePayload(plan) ==
    [login |-> ValueString(plan.Login),
     password |-> ValueString(plan.Password),
     firstName |-> ValueString(plan.FirstName),
     lastName |-> ValueString(plan.LastName),
     email |-> ValueString(plan.Email)]

\* user_resource.go 73-112: userResource.Create
Create(i, plan, fault) ==
    /\ rClient # NIL
    /\ tfstate[i] = NIL
    /\ LET data == CreatePayload(plan)
           r == RemoteCreate(server, data, fault)
       IN  /\ calls' = <<Request("POST", "user/create", "", data)>>
           /\ server' = r.server
           /\ last' = Event("Create", i, plan, r.err)
           /\ IF r.err # NoError
              THEN /\ diags' = AddError(NoDiagnostics, "Error creating user", r.err)
                   /\ tfstate' = tfstate
              ELSE /\ diags' = NoDiagnostics
                   /\ tfstate' = [tfstate EXCEPT ![i] = plan]
           /\ deleted' = IF r.err = NoError THEN deleted \ {data.login} ELSE deleted
    /\ UNCHANGED <<environ, cfgReq, cfgLocals, cfgResp, rClient, dClient, dsState>>

RefreshedKeepsEmail(state, result) ==
    [state EXCEPT !.FirstName = StringValue(result.first_name),
                  !.LastName = StringValue(result.last_name)]

\* user_resource.go 150-152
Refreshed(state, result) ==
    [state EXCEPT !.FirstName = StringValue(result.first_name),
                  !.LastName = StringValue(result.last_name),
                  !.Email = StringValue(result.email)]

ReadRemovesOnError(i, fault) ==
    /\ rClient # NIL
    /\ tfstate[i] # NIL
    /\ LET state == tfstate[i]
           login == ValueString(state.Login)
           r == RemoteGetDetails(server, login, fault)
       IN  /\ calls' = <<Request("GET", "user/getDetails", login, NIL)>>
           /\ last' = [Event("Read", i, state, r.err) EXCEPT !.afterCreate =
                          last.op = "Create" /\ last.inst = i /\ last.err = NoError]
           /\ IF r.err # NoError
              THEN /\ diags' = AddError(NoDiagnostics, "Error Reading Uyuuni user", r.err)
                   /\ tfstate' = [tfstate EXCEPT ![i] = NIL]
              ELSE /\ diags' = NoDiagnostics
                   /\ tfstate' = [tfstate EXCEPT ![i] = Refreshed(state, r.result)]
    /\ UNCHANGED <<environ, cfgReq, cfgLocals, cfgResp, rClient, dClient, server,
                   dsState, deleted>>

\* user_resource.go 115-161: userResource.Read
Read(i, fault) ==
    /\ rClient # NIL
    /\ tfstate[i] # NIL
    /\ LET state == tfstate[i]
           login == ValueString(state.Login)
           r == RemoteGetDetails(server, login, fault)
       IN  /\ calls' = <<Request("GET", "user/getDetails", login, NIL)>>
           /\ last' = [Event("Read", i, state, r.err) EXCEPT !.afterCreate =
                          last.op = "Create" /\ last.inst = i /\ last.err = NoError]
           /\ IF r.err # NoError
              THEN /\ diags' = AddError(NoDiagnostics, "Error Reading Uyuuni user", r.err)
                   /\ tfstate' = tfstate
              ELSE /\ diags' = NoDiagnostics
                   /\ tfstate' = [tfstate EXCEPT ![i] = Refreshed(state, r.result)]
    /\ UNCHANGED <<environ, cfgReq, cfgLocals, cfgResp, rClient, dClient, server,
                   dsState, deleted>>

UpdateApplies(i, plan) ==
    /\ rClient # NIL
    /\ tfstate[i] # NIL
    /\ plan # tfstate[i]
    /\ LET login == ValueString(tfstate[i].Login)
       IN  /\ calls' = <<Request("POST", "user/setDetails", login, CreatePayload(plan))>>
           /\ server' = IF Lookup(server, login) = NIL THEN server
                        ELSE [server EXCEPT ![login] =
                                 [first_name |-> ValueString(plan.FirstName),
                                  last_name |-> ValueString(plan.LastName),
                                  email |-> ValueString(plan.Email)]]
    /\ diags' = NoDiagnostics
    /\ tfstate' = [tfstate EXCEPT ![i] = plan]
    /\ last' = Event("Update", i, plan, NoError)
    /\ UNCHANGED <<environ, cfgReq, cfgLocals, cfgResp, rClient, dClient,
                   dsState, deleted>>

\* user_resource.go 164-165: userResource.Update, an empty body; the response
\* state the framework pre-populates is the prior state
Update(i, plan) ==
    /\ rClient # NIL
    /\ tfstate[i] # NIL
    /\ plan # tfstate[i]
    /\ calls' = << >>
    /\ diags' = NoDiagnostics
    /\ last' = Event("Update", i, plan, NoError)
    /\ UNCHANGED <<environ, cfgReq, cfgLocals, cfgResp, rClient, dClient, server,
                   tfstate, dsState, deleted>>

\* user_resource.go 179: the login the delete request is keyed by
DeleteLogin(state) == ValueString(state.Login)

DeleteCallGetDetails(srv, login, fault) ==
    [err |-> RemoteGetDetails(srv, login, fault).err, server |-> srv]

\* user_resource.go 179: the request Delete sends
DeleteCall(srv, login, fault) == RemoteDelete(srv, login, fault)

\* user_resource.go 167-187: userResource.Delete; on a response without error
\* the framework removes the instance from the state
Delete(i, fault) ==
    /\ rClient # NIL
    /\ tfstate[i] # NIL
    /\ LET state == tfstate[i]
           login == DeleteLogin(state)
           r == DeleteCall(server, login, fault)
       IN  /\ calls' = <<Request("POST", "user/delete", login, [x \in {} |-> ""])>>
           /\ server' = r.server
           /\ last' = Event("Delete", i, state, r.err)
           /\ IF r.err # NoError
              THEN /\ diags' = AddError(NoDiagnostics, "Error Deleting Uyuni user", r.err)
                   /\ tfstate' = tfstate
              ELSE /\ diags' = NoDiagnostics
                   /\ tfstate' = [tfstate EXCEPT ![i] = NIL]
           /\ deleted' = IF r.err = NoError THEN deleted \cup {login} ELSE deleted
    /\ UNCHANGED <<environ, cfgReq, cfgLocals, cfgResp, rClient, dClient, dsState>>

(***************************************************************************)
(* Changes other clients of the Uyuni API make to the server's users.      *)
(***************************************************************************)
OtherCreate(login, details) ==
    /\ server[login] = NIL
    /\ server' = [server EXCEPT ![login] = details]
    /\ last' = Event("OtherCreate", 0, [login |-> login], NoError)
    /\ deleted' = deleted \ {login}
    /\ UNCHANGED <<environ, cfgReq, cfgLocals, cfgResp, rClient, dClient,
                   tfstate, dsState, diags, calls>>

OtherSetDetails(login, details) ==
    /\ server[login] # NIL
    /\ server[login] # details
    /\ server' = [server EXCEPT ![login] = details]
    /\ last' = Event("OtherSetDetails", 0, [login |-> login], NoError)
    /\ UNCHANGED <<environ, cfgReq, cfgLocals, cfgResp, rClient, dClient,
                   tfstate, dsState, diags, calls, deleted>>

OtherDelete(login) ==
    /\ server[login] # NIL
    /\ server' = [server EXCEPT ![login] = NIL]
    /\ last' = Event("OtherDelete", 0, [login |-> login], NoError)
    /\ UNCHANGED <<environ, cfgReq, cfgLocals, cfgResp, rClient, dClient,
                   tfstate, dsState, diags, calls, deleted>>

(***************************************************************************)
(* Users listing data source (users_data_source.go).                       *)
(***************************************************************************)
\* a Go slice: nil, or its elements
NilSlice == [nil |-> TRUE, elems |-> << >>]
GoAppend(slice, x) == [nil |-> FALSE, elems |-> Append(slice.elems, x)]

\* users_data_source.go 89-92
UserState(this_user) ==
    [ID |-> Int64Value(this_user.Id), Login |-> StringValue(this_user.Login)]

RECURSIVE MapUsersOffByOne(_, _, _)
MapUsersOffByOne(result, k, users) ==
    IF k >= Len(result) THEN users
    ELSE MapUsersOffByOne(result, k + 1, GoAppend(users, UserState(result[k])))

\* users_data_source.go 88-95: the loop over users.Result, from index k on
RECURSIVE MapUsers(_, _, _)
MapUsers(result, k, users) ==
    IF k > Len(result) THEN users
    ELSE MapUsers(result, k + 1, GoAppend(users, UserState(result[k])))

\* resp.State.Set of UsersDataSourceModel: a nil slice is stored as a null list
StateSet(users) ==
    [set |-> TRUE,
     user |-> IF users.nil THEN [state |-> "null", elems |-> << >>]
              ELSE [state |-> "known", elems |-> users.elems]]

\* the state of a datasource.ReadResponse that was never set
UnsetState == [set |-> FALSE, user |-> [state |-> "null", elems |-> << >>]]

\* GET user/listUsers
RemoteListUsers(result, fault) ==
    IF fault THEN [err |-> ErrTransport, result |-> << >>]
    ELSE [err |-> NoError, result |-> result]

\* users_data_source.go 74-103: UsersDataSource.Read
UsersRead(result, fault) ==
    /\ dClient # NIL
    /\ LET r == RemoteListUsers(result, fault)
       IN  /\ calls' = <<Request("GET", "user/listUsers", "", NIL)>>
           /\ last' = Event("List", 0, [result |-> r.result], r.err)
           /\ IF r.err # NoError
              THEN /\ diags' = AddError(NoDiagnostics, "Unable to Read Uyuni user", r.err)
                   /\ dsState' = UnsetState
              ELSE /\ diags' = NoDiagnostics
                   /\ dsState' = StateSet(MapUsers(r.result, 1, NilSlice))
    /\ UNCHANGED <<environ, cfgReq, cfgLocals, cfgResp, rClient, dClient, server,
                   tfstate, deleted>>

(***************************************************************************)
(* Inputs.                                                                 *)
(***************************************************************************)
Instances == 1..MaxInstances

Logins == {"sgiertz", "kim"}
Passwords == {"test123"}
UserDetails ==
    {[first_name |-> "Simone", last_name |-> "Giertz", email |-> "sgiertz@foo.bar"],
     [first_name |-> "Kim", last_name |-> "Park", email |-> "kim@foo.bar"]}

\* the plans / configurations of a uyuni_user: all five attributes required
Plans(logins, passwords, details) ==
    {[Login |-> StringValue(l), Password |-> StringValue(p),
      FirstName |-> StringValue(d.first_name),
      LastName |-> StringValue(d.last_name),
      Email |-> StringValue(d.email)] :
        l \in logins, p \in passwords, d \in details}

\* the resource of the example configuration
ExamplePlans ==
    Plans({"sgiertz"}, {"test123"},
          {[first_name |-> "Simone", last_name |-> "Giertz",
            email |-> "sgiertz@foo.bar"]})

FieldValues(explicit) ==
    {StringNull, StringUnknown, StringValue(""), StringValue(explicit)}

\* provider blocks: each attribute null, unknown, empty or set
Configs ==
    {[Host |-> h, Username |-> u, Password |-> p] :
        h \in FieldValues("192.168.1.100"), u \in FieldValues("admin"),
        p \in FieldValues("admin")}

\* the provider block of the example configuration
ExampleConfig ==
    [Host |-> StringValue("192.168.1.100"), Username |-> StringValue("admin"),
     Password |-> StringValue("admin")]

EnvValue(name) ==
    CASE name = "UYUNI_HOST" -> "h"
      [] name = "UYUNI_USERNAME" -> "u"
      [] name = "UYUNI_PASSWORD" -> "p"

\* environments: each UYUNI_* variable unset or set
Environs == {e \in [EnvNames -> {"", "h", "u", "p"}] :
                \A n \in EnvNames : e[n] \in {"", EnvValue(n)}}

EmptyEnviron == [n \in EnvNames |-> ""]

InitErrors == {NoError, ErrInit}

\* records user/listUsers returns
ListedUsers ==
    {[Id |-> id, Login |-> l, Login_UC |-> l, Enabled |-> TRUE] :
        id \in 1..2, l \in Logins \cup {"admin"}}

RECURSIVE SeqsUpTo(_, _)
SeqsUpTo(S, n) ==
    IF n = 0 THEN {<< >>}
    ELSE LET shorter == SeqsUpTo(S, n - 1)
         IN  shorter \cup {Append(q, x) : q \in shorter, x \in S}

ListResults == SeqsUpTo(ListedUsers, MaxUsers)

ExampleListResults ==
    {<< >>, <<[Id |-> 1, Login |-> "admin", Login_UC |-> "admin", Enabled |-> TRUE]>>}

(***************************************************************************)
(* Specifications.                                                         *)
(***************************************************************************)
InitWith(environs) ==
    /\ environ \in environs
    /\ cfgReq = NIL
    /\ cfgLocals = NoLocals
    /\ cfgResp = NIL
    /\ rClient = NIL
    /\ dClient = NIL
    /\ server = [l \in Logins |-> NIL]
    /\ tfstate = [i \in Instances |-> NIL]
    /\ dsState = UnsetState
    /\ last = Event("none", 0, NIL, NoError)
    /\ diags = NoDiagnostics
    /\ calls = << >>
    /\ deleted = {}

\* The whole provider: every provider block and environment, one resource
\* instance and the example's inputs.
Init == InitWith(Environs)

Next ==
    \/ \E config \in Configs, initErr \in InitErrors :
          ProviderConfigure(config, initErr)
    \/ UserResourceConfigure
    \/ UsersDataSourceConfigure
    \/ \E plan \in ExamplePlans, fault \in BOOLEAN : Create(1, plan, fault)
    \/ \E fault \in BOOLEAN : Read(1, fault)
    \/ \E plan \in Plans({"sgiertz"}, {"test123"}, UserDetails) : Update(1, plan)
    \/ \E fault \in BOOLEAN : Delete(1, fault)
    \/ \E d \in UserDetails : OtherCreate("sgiertz", d)
    \/ \E d \in UserDetails : OtherSetDetails("sgiertz", d)
    \/ OtherDelete("sgiertz")
    \/ \E result \in ExampleListResults, fault \in BOOLEAN : UsersRead(result, fault)

Spec == Init /\ [][Next]_vars

\* The user resource under the example's provider block: every instance,
\* plan and server-side change.
InitUser == InitWith({EmptyEnviron})

NextUser ==
    \/ ProviderConfigure(ExampleConfig, NoError)
    \/ UserResourceConfigure
    \/ \E i \in Instances, plan \in Plans(Logins, Passwords, UserDetails),
          fault \in BOOLEAN : Create(i, plan, fault)
    \/ \E i \in Instances, fault \in BOOLEAN : Read(i, fault)
    \/ \E i \in Instances, plan \in Plans(Logins, Passwords, UserDetails) :
          Update(i, plan)
    \/ \E i \in Instances, fault \in BOOLEAN : Delete(i, fault)
    \/ \E l \in Logins, d \in UserDetails : OtherCreate(l, d)
    \/ \E l \in Logins, d \in UserDetails : OtherSetDetails(l, d)
    \/ \E l \in Logins : OtherDelete(l)

SpecUser == InitUser /\ [][NextUser]_vars

\* The listing data source under the example's provider block: every result
\* sequence of user/listUsers up to MaxUsers records.
NextUsers ==
    \/ ProviderConfigure(ExampleConfig, NoError)
    \/ UsersDataSourceConfigure
    \/ \E result \in ListResults, fault \in BOOLEAN : UsersRead(result, fault)

SpecUsers == InitUser /\ [][NextUsers]_vars

(***************************************************************************)
(* Properties of the user resource, checked under SpecUser.                *)
(***************************************************************************)
Known(v) == [state |-> "known", value |-> v]

\* C1: after a successful Read the tracked firstname, lastname and email are
\* the values the server now holds for the tracked login, and the tracked
\* login and password are those of the state the Read was given.
C1_ReadReflectsServer ==
    (last.op = "Read" /\ last.err = NoError) =>
        LET state == tfstate[last.inst]
            user == server[last.req.Login.value]
        IN  /\ state # NIL
            /\ user # NIL
            /\ state.FirstName = Known(user.first_name)
            /\ state.LastName = Known(user.last_name)
            /\ state.Email = Known(user.email)
            /\ state.Login = last.req.Login
            /\ state.Password = last.req.Password

\* a successful Read that changed the tracked email after a server-side change
C1_Witness ==
    /\ last.op = "Read"
    /\ last.err = NoError
    /\ tfstate[last.inst].Email # last.req.Email
    /\ tfstate[last.inst].FirstName # last.req.FirstName

\* C2: a successful Create stores the plan as the state and the submitted
\* details on the server, and a Read of the same instance that directly
\* follows it (and reaches the server) succeeds and leaves the state equal to
\* the plan in all five attributes.
C2_CreateThenRead ==
    /\ [](last.op = "Create" /\ last.err = NoError =>
            /\ tfstate[last.inst] = last.req
            /\ diags = NoDiagnostics
            /\ server[last.req.Login.value] =
                  [first_name |-> last.req.FirstName.value,
                   last_name |-> last.req.LastName.value,
                   email |-> last.req.Email.value])
    /\ [][(/\ last.op = "Create"
           /\ last.err = NoError
           /\ last'.op = "Read"
           /\ last'.inst = last.inst
           /\ last'.err # ErrTransport) =>
              /\ last'.err = NoError
              /\ diags' = NoDiagnostics
              /\ tfstate'[last.inst] = last.req]_vars

\* a successful Read directly after the successful Create of the instance
C2_Witness ==
    /\ last.op = "Read"
    /\ last.afterCreate
    /\ last.err = NoError
    /\ tfstate[last.inst] = last.req

\* C3: a Create, Read or Delete whose remote call failed issued exactly that
\* one request, reports exactly one error diagnostic carrying the API error,
\* and changed no tracked state: the created instance stays absent, the read
\* or deleted instance keeps the state it had.
C3_FailureLeavesState ==
    [][(last'.op \in {"Create", "Read", "Delete"} /\ last'.err # NoError) =>
          /\ tfstate' = tfstate
          /\ Len(calls') = 1
          /\ Len(diags') = 1
          /\ diags'[1].severity = "error"
          /\ diags'[1].cause = last'.err
          /\ IF last'.op = "Create"
             THEN tfstate'[last'.inst] = NIL
             ELSE tfstate'[last'.inst] # NIL /\ tfstate'[last'.inst] = last'.req]_vars

\* a Read that failed because the user is gone, the instance still tracked
C3_Witness ==
    /\ last.op = "Read"
    /\ last.err = ErrNotFound
    /\ tfstate[last.inst] # NIL
    /\ Len(diags) = 1

\* C4: Delete sends one delete request keyed by the tracked login, and once a
\* Delete of login L succeeded, a Read for L before anyone creates L again
\* fails: with the server's not-found error unless the transport failed
\* first, and never with success.
C4_ReadAfterDeleteFails ==
    /\ (last.op = "Delete" =>
          /\ calls = <<[method |-> "POST", path |-> "user/delete",
                        login |-> last.req.Login.value, body |-> << >>]>>
          /\ (last.err = NoError =>
                /\ last.req.Login.value \in deleted
                /\ server[last.req.Login.value] = NIL))
    /\ ((last.op = "Read" /\ last.req.Login.value \in deleted) =>
          /\ last.err \in {ErrNotFound, ErrTransport}
          /\ HasError(diags)
          /\ diags[1].cause = last.err)

\* a Read, through another instance tracking the login, after its Delete
C4_Witness ==
    /\ last.op = "Read"
    /\ last.req.Login.value \in deleted
    /\ last.err = ErrNotFound

C5_ListingPreservesOrder ==
    last.op = "List" =>
        /\ Len(calls) = 1
        /\ IF last.err = NoError
           THEN /\ diags = NoDiagnostics
                /\ dsState.set
                /\ Len(dsState.user.elems) = Len(last.req.result)
                /\ \A k \in 1..Len(last.req.result) :
                      /\ dsState.user.elems[k].ID = Known(last.req.result[k].Id)
                      /\ dsState.user.elems[k].Login = Known(last.req.result[k].Login)
           ELSE /\ Len(diags) = 1
                /\ diags[1].severity = "error"
                /\ diags[1].cause = last.err
                /\ ~dsState.set
                /\ dsState.user.elems = << >>

\* a listing of several different records
C5_Witness ==
    /\ last.op = "List"
    /\ last.err = NoError
    /\ Len(last.req.result) >= 2
    /\ last.req.result[1] # last.req.result[2]
    /\ Len(dsState.user.elems) = Len(last.req.result)

(***************************************************************************)
(* Properties of the provider configuration, checked under Spec.           *)
(***************************************************************************)
Fields == {"host", "username", "password"}

ConfigField(config, f) ==
    CASE f = "host" -> config.Host
      [] f = "username" -> config.Username
      [] f = "password" -> config.Password

EnvOf(f) ==
    CASE f = "host" -> "UYUNI_HOST"
      [] f = "username" -> "UYUNI_USERNAME"
      [] f = "password" -> "UYUNI_PASSWORD"

UnknownFields == {f \in Fields : ConfigField(cfgReq, f).state = "unknown"}

\* the value the specification resolves field f to
Expected(f) ==
    IF ConfigField(cfgReq, f).state = "null"
    THEN environ[EnvOf(f)]
    ELSE ConfigField(cfgReq, f).value

EmptyFields == {f \in Fields : f \notin UnknownFields /\ Expected(f) = ""}

\* how many diagnostics of the configure response are this error on field f
Count(kind, f) ==
    Cardinality({k \in 1..Len(cfgResp.Diagnostics) :
        /\ cfgResp.Diagnostics[k].path = f
        /\ cfgResp.Diagnostics[k].severity = "error"
        /\ cfgResp.Diagnostics[k].summary \in
              IF kind = "unknown"
              THEN {"Unknown Uyuni API Host", "Unknown Uyuni API Username",
                    "Unknown Uyuni API Password"}
              ELSE {"Missing Uyuni API Host", "Missing Uyuni API Username",
                    "Missing Uyuni API Password"}})

\* C6: when Configure resolves the fields (none is unknown), each of host,
\* username and password resolves to the configuration value when that is
\* not null, the empty string included, and to the environment variable
\* otherwise; the connection of the client is built from the resolved values.
C6_ExplicitWinsOverEnv ==
    /\ (cfgResp # NIL /\ UnknownFields = {}) => cfgLocals # NoLocals
    /\ cfgLocals # NoLocals =>
          /\ UnknownFields = {}
          /\ cfgLocals.host = Expected("host")
          /\ cfgLocals.username = Expected("username")
          /\ cfgLocals.password = Expected("password")
          /\ cfgResp.ResourceData # NIL =>
                cfgResp.ResourceData.conn =
                   [Server |-> Expected("host"), User |-> Expected("username"),
                    Password |-> Expected("password"), CAcert |-> "",
                    Insecure |-> TRUE]

\* explicit host, username and password only from the environment
C6_Witness ==
    /\ cfgResp # NIL
    /\ cfgReq = [Host |-> Known("192.168.1.100"), Username |-> StringNull,
                 Password |-> StringNull]
    /\ environ["UYUNI_HOST"] = "h"
    /\ environ["UYUNI_USERNAME"] = "u"
    /\ environ["UYUNI_PASSWORD"] = "p"
    /\ cfgResp.ResourceData # NIL
    /\ cfgResp.ResourceData.conn.Server = "192.168.1.100"
    /\ cfgResp.ResourceData.conn.User = "u"
    /\ cfgResp.ResourceData.conn.Password = "p"

\* C7: when no field is unknown, Configure reports exactly one missing-value
\* error for each field whose resolved value is empty and none for the
\* others; with k > 0 empty values these are its only k diagnostics.
C7_OneMissingErrorPerEmptyValue ==
    (cfgResp # NIL /\ UnknownFields = {}) =>
        /\ \A f \in Fields :
              Count("missing", f) = IF f \in EmptyFields THEN 1 ELSE 0
        /\ EmptyFields # {} =>
              Len(cfgResp.Diagnostics) = Cardinality(EmptyFields)

\* nothing configured, nothing in the environment: three errors
C7_Witness ==
    /\ cfgResp # NIL
    /\ cfgReq = [Host |-> StringNull, Username |-> StringNull,
                 Password |-> StringNull]
    /\ \A n \in EnvNames : environ[n] = ""
    /\ Len(cfgResp.Diagnostics) = 3
    /\ \A f \in Fields : Count("missing", f) = 1

\* C8 as stated: a run with one field unknown and another resolving to an
\* empty value reports both the unknown-value error of the first and the
\* missing-value error of the second.
C8_AllFailuresTogether ==
    cfgResp # NIL =>
        \A f \in UnknownFields, g \in EmptyFields :
            Count("unknown", f) = 1 /\ Count("missing", g) = 1

\* C8, amended: diagnostics accumulate within each validation pass.  Every
\* unknown field gets its unknown-value error and the run then aborts before
\* defaulting, with no missing-value error; only when no field is unknown
\* does every empty resolved value get its missing-value error.
C8_AccumulatesPerPass ==
    cfgResp # NIL =>
        /\ \A f \in Fields :
              Count("unknown", f) = IF f \in UnknownFields THEN 1 ELSE 0
        /\ UnknownFields # {} =>
              /\ Len(cfgResp.Diagnostics) = Cardinality(UnknownFields)
              /\ \A g \in Fields : Count("missing", g) = 0
              /\ cfgLocals = NoLocals
              /\ cfgResp.ResourceData = NIL
        /\ UnknownFields = {} =>
              \A g \in EmptyFields : Count("missing", g) = 1

\* two unknown fields and an empty third: the two unknown-value errors only
C8_Witness ==
    /\ cfgResp # NIL
    /\ Cardinality(UnknownFields) = 2
    /\ Cardinality(EmptyFields) = 1
    /\ Len(cfgResp.Diagnostics) = 2
    /\ \A f \in UnknownFields : Count("unknown", f) = 1

\* C9: Configure hands the same client to resources and data sources exactly
\* when it reports no error, which is exactly when no field is unknown, all
\* three resolved values are non-empty and api.Init succeeded; the response
\* never changes afterwards, a component holds no other client than the one
\* handed out, and a remote request is only ever issued after such a
\* successful configuration.
C9_ConfigErrorAborts ==
    /\ [](cfgResp # NIL =>
            /\ cfgResp.ResourceData = cfgResp.DataSourceData
            /\ HasError(cfgResp.Diagnostics) <=> cfgResp.ResourceData = NIL
            /\ cfgResp.ResourceData # NIL =>
                  /\ UnknownFields = {}
                  /\ \A f \in Fields : Expected(f) # ""
                  /\ cfgResp.Diagnostics = NoDiagnostics
            /\ (last.op = "Configure" /\ UnknownFields = {} /\ EmptyFields = {}
                  /\ last.err = NoError) => cfgResp.ResourceData # NIL)
    /\ [](rClient # NIL => cfgResp # NIL /\ rClient = cfgResp.ResourceData)
    /\ [](dClient # NIL => cfgResp # NIL /\ dClient = cfgResp.DataSourceData)
    /\ []((calls # << >> \/ last.op \in {"Create", "Read", "Update", "Delete", "List"})
             => cfgResp # NIL /\ ~HasError(cfgResp.Diagnostics)
                   /\ cfgResp.ResourceData # NIL)
    /\ [][cfgResp # NIL => cfgResp' = cfgResp]_vars

\* api.Init failed on three resolved values: one error, no client handed out
C9_Witness ==
    /\ cfgResp # NIL
    /\ last.op # "Configure"
    /\ cfgLocals # NoLocals
    /\ EmptyFields = {}
    /\ Len(cfgResp.Diagnostics) = 1
    /\ cfgResp.Diagnostics[1].cause = ErrInit
    /\ cfgResp.ResourceData = NIL
    /\ rClient = NIL
    /\ calls = << >>

=============================================================================
